---------------------------- MODULE Spec2Model ----------------------------
(***************************************************************************)
(* boilercore: the symbolic-model-to-numeric-fit pipeline.                 *)
(*                                                                         *)
(*   src/boilercore/stages/modelfun.ipynb  derives the piecewise           *)
(*       temperature distribution of the rod, float-evaluates it,          *)
(*       lambdifies it twice and serializes the two callables;             *)
(*   data/notebooks/fit.ipynb  loads a serialized model and fits it        *)
(*       (one default fit, two sweeps over DECADES initial values).        *)
(*                                                                         *)
(* Symbolic expressions are syntax trees (tuples headed by a tag); subs,   *)
(* diff, free_symbols and Piecewise are operators over the trees.          *)
(* Equality "for all parameter values" is decided by evaluating two trees  *)
(* at a valuation of the symbols in the prime field Fld, where sqrt is a   *)
(* true square root and exp is a function known only by exp(0) = 1.        *)
(***************************************************************************)
EXTENDS Integers, Sequences, FiniteSets, TLC

(***************************************************************************)
(* Bounds of the model.                                                    *)
(***************************************************************************)
\* the symbols take the values 1..MaxVal
MaxVal == 2
\* invocations of the derivation stage in one behaviour
MaxRuns == 2

(***************************************************************************)
(* boilercore.syms, as imported by modelfun.ipynb (the import list names   *)
(* each group and then its members).                                       *)
(***************************************************************************)
params == <<"x", "T_s", "q_s", "h_a", "k", "h_w">>
inputs == <<"r", "T_infa", "T_infw", "x_s", "x_wa">>
intermediate_vars == <<"h", "q_0", "q_wa", "T_0", "T_inf", "T_wa", "x_0">>

Range(s) == {s[i] : i \in DOMAIN s}

(***************************************************************************)
(* Expression trees.                                                       *)
(***************************************************************************)
Num(n) == <<"num", n>>
Sym(s) == <<"sym", s>>
pi == <<"pi">>
\* sympy evaluates 0 + a, a - 0, 0 * a, 1 * a and 0 / a when it builds them
IsNum(a, n) == a[1] = "num" /\ a[2] = n
Add(a, b) ==
    IF IsNum(a, 0) THEN b ELSE IF IsNum(b, 0) THEN a ELSE <<"add", a, b>>
Sub(a, b) == IF IsNum(b, 0) THEN a ELSE <<"sub", a, b>>
Mul(a, b) ==
    IF IsNum(a, 0) \/ IsNum(b, 0) THEN Num(0)
    ELSE IF IsNum(a, 1) THEN b
    ELSE IF IsNum(b, 1) THEN a ELSE <<"mul", a, b>>
Div(a, b) == IF IsNum(a, 0) THEN Num(0) ELSE <<"div", a, b>>
Sqrt(a) == <<"sqrt", a>>
Exp(a) == <<"exp", a>>
Lt(a, b) == <<"lt", a, b>>
Le(a, b) == <<"le", a, b>>
True == <<"true">>
\* Piecewise((e1, c1), (e2, c2)): the first pair whose condition holds
Piecewise(p1, p2) == <<"piecewise", p1, p2>>

IsUnary(e) == e[1] \in {"sqrt", "exp"}
IsBinary(e) == e[1] \in {"add", "sub", "mul", "div", "lt", "le"}

\* Expr.free_symbols
RECURSIVE free_symbols(_)
free_symbols(e) ==
    CASE e[1] = "sym" -> {e[2]}
      [] IsUnary(e) -> free_symbols(e[2])
      [] IsBinary(e) -> free_symbols(e[2]) \cup free_symbols(e[3])
      [] e[1] = "piecewise" ->
            free_symbols(e[2][1]) \cup free_symbols(e[2][2])
            \cup free_symbols(e[3][1]) \cup free_symbols(e[3][2])
      [] OTHER -> {}

\* Expr.subs(d): every symbol that is a key of d is replaced by d's entry
RECURSIVE subs(_, _)
subs(e, d) ==
    CASE e[1] = "sym" -> IF e[2] \in DOMAIN d THEN d[e[2]] ELSE e
      [] IsUnary(e) -> <<e[1], subs(e[2], d)>>
      [] IsBinary(e) -> <<e[1], subs(e[2], d), subs(e[3], d)>>
      [] e[1] = "piecewise" ->
            <<"piecewise",
              <<subs(e[2][1], d), subs(e[2][2], d)>>,
              <<subs(e[3][1], d), subs(e[3][2], d)>>>>
      [] OTHER -> e

\* Expr.diff(v): an expression free of v differentiates to 0
RECURSIVE diff(_, _)
diff(e, v) ==
    IF v \notin free_symbols(e) THEN Num(0)
    ELSE CASE e[1] = "sym" -> Num(1)
           [] e[1] = "add" -> Add(diff(e[2], v), diff(e[3], v))
           [] e[1] = "sub" -> Sub(diff(e[2], v), diff(e[3], v))
           [] e[1] = "mul" ->
                 Add(Mul(diff(e[2], v), e[3]), Mul(e[2], diff(e[3], v)))
           [] e[1] = "div" ->
                 Div(Sub(Mul(diff(e[2], v), e[3]), Mul(e[2], diff(e[3], v))),
                     Mul(e[3], e[3]))
           [] e[1] = "sqrt" -> Div(diff(e[2], v), Mul(Num(2), e))
           [] e[1] = "exp" -> Mul(e, diff(e[2], v))

\* DictUnion with the left operand's entry kept for a key of both
DictUnion_left_wins(d1, d2) ==
    [key \in DOMAIN d1 \cup DOMAIN d2 |->
        IF key \in DOMAIN d1 THEN d1[key] ELSE d2[key]]

\* a Python dict: a function from its keys; d1 | d2 keeps d2's entry for a
\* key of both
DictUnion(d1, d2) ==
    [key \in DOMAIN d1 \cup DOMAIN d2 |->
        IF key \in DOMAIN d2 THEN d2[key] ELSE d1[key]]

(***************************************************************************)
(* Evaluation at a valuation env (symbol -> 0..MaxVal) in the field Fld.   *)
(***************************************************************************)
Fld == 0..22
FldOrder == Cardinality(Fld)
Norm(n) == ((n % FldOrder) + FldOrder) % FldOrder
Inv(a) == CHOOSE b \in Fld : (a * b) % FldOrder = 1
IsSquare(a) == \E s \in Fld : (s * s) % FldOrder = a
Root(a) == CHOOSE s \in Fld : (s * s) % FldOrder = a
\* exp, known only by exp(0) = 1 and by never being 0
ExpF(a) == IF a = 0 THEN 1 ELSE 1 + ((a * a * a + 5 * a) % (FldOrder - 1))

\* the value of an atom (a symbol or a number) as an integer
AtomVal(e, env) == IF e[1] = "sym" THEN env[e[2]] ELSE e[2]

\* a relational's truth at env
Holds(c, env) ==
    CASE c[1] = "true" -> TRUE
      [] c[1] = "lt" -> AtomVal(c[2], env) < AtomVal(c[3], env)
      [] c[1] = "le" -> AtomVal(c[2], env) <= AtomVal(c[3], env)

\* which pair of a Piecewise is selected at env: 1, 2, or 0 for none
Branch(e, env) ==
    IF Holds(e[2][2], env) THEN 1 ELSE IF Holds(e[3][2], env) THEN 2 ELSE 0

\* the value of e at env, an element of Fld
RECURSIVE Eval(_, _)
Eval(e, env) ==
    CASE e[1] = "num" -> Norm(e[2])
      [] e[1] = "sym" -> Norm(env[e[2]])
      [] e[1] = "pi" -> 3
      [] e[1] = "add" -> (Eval(e[2], env) + Eval(e[3], env)) % FldOrder
      [] e[1] = "sub" -> Norm(Eval(e[2], env) - Eval(e[3], env))
      [] e[1] = "mul" -> (Eval(e[2], env) * Eval(e[3], env)) % FldOrder
      [] e[1] = "div" -> (Eval(e[2], env) * Inv(Eval(e[3], env))) % FldOrder
      [] e[1] = "sqrt" -> Root(Eval(e[2], env))
      [] e[1] = "exp" -> ExpF(Eval(e[2], env))
      [] e[1] = "piecewise" -> Eval(e[Branch(e, env) + 1][1], env)

(***************************************************************************)
(* modelfun.ipynb: the derivation.  Each name is the notebook's.           *)
(***************************************************************************)
x == Sym("x")
T_s == Sym("T_s")
q_s == Sym("q_s")
h_a == Sym("h_a")
k == Sym("k")
h_w == Sym("h_w")
r == Sym("r")
T_infa == Sym("T_infa")
T_infw == Sym("T_infw")
x_s == Sym("x_s")
x_wa == Sym("x_wa")
h == Sym("h")
q_0 == Sym("q_0")
q_wa == Sym("q_wa")
T_0 == Sym("T_0")
T_inf == Sym("T_inf")
T_wa == Sym("T_wa")
x_0 == Sym("x_0")

\* P = 2 * pi * r ; A_c = pi * r**2
P == Mul(Mul(Num(2), pi), r)
A_c == Mul(pi, Mul(r, r))

\* ode: T'' - coef * (T - ambient) = 0, kept by its two coefficients
ode == [coef |-> Div(Div(Mul(h, P), k), A_c), ambient |-> T_inf]
\* ics with the flux given as the slope, the division by k forgotten
ics_flux_as_slope == [at |-> x_0, value |-> T_0, slope |-> q_0]
\* ics: T(at) = value, T'(at) = slope
ics == [at |-> x_0, value |-> T_0, slope |-> Div(q_0, k)]

\* sympy's dsolve on a second-order linear ODE with constant coefficients
\* and two initial conditions: the solution through the conditions, a sum of
\* two exponentials of the distance from the initial point
dsolve(o, ic) ==
    LET m == Sqrt(o.coef)
        u == Mul(m, Sub(x, ic.at))
        a == Sub(ic.value, o.ambient)
        b == Div(ic.slope, m)
    IN  Add(o.ambient,
            Add(Mul(Div(Add(a, b), Num(2)), Exp(u)),
                Mul(Div(Sub(a, b), Num(2)), Exp(Sub(Num(0), u)))))

T_int_expr == dsolve(ode, ics)

T_w_expr ==
    subs(T_int_expr,
         [key \in {"h", "q_0", "T_0", "T_inf", "x_0"} |->
             CASE key = "h" -> h_w
               [] key = "q_0" -> q_s
               [] key = "T_0" -> T_s
               [] key = "T_inf" -> T_infw
               [] key = "x_0" -> x_s])

T_wa_expr_w == subs(T_w_expr, [key \in {"x"} |-> x_wa])
q_wa_expr_w == Mul(subs(diff(T_w_expr, "x"), [key \in {"x"} |-> x_wa]), k)

\* T_a_int_expr with the initial point left at the source
T_a_int_expr_at_source ==
    subs(T_int_expr,
         [key \in {"h", "q_0", "T_0", "T_inf", "x_0"} |->
             CASE key = "h" -> h_a
               [] key = "q_0" -> q_wa
               [] key = "T_0" -> T_wa
               [] key = "T_inf" -> T_infa
               [] key = "x_0" -> x_s])

T_a_int_expr ==
    subs(T_int_expr,
         [key \in {"h", "q_0", "T_0", "T_inf", "x_0"} |->
             CASE key = "h" -> h_a
               [] key = "q_0" -> q_wa
               [] key = "T_0" -> T_wa
               [] key = "T_inf" -> T_infa
               [] key = "x_0" -> x_wa])

\* T_a_expr with the interface temperature left unsubstituted
T_a_expr_keeps_T_wa ==
    subs(T_a_int_expr, [key \in {"q_wa"} |-> q_wa_expr_w])

T_a_expr ==
    subs(T_a_int_expr,
         [key \in {"q_wa", "T_wa"} |->
             IF key = "q_wa" THEN q_wa_expr_w ELSE T_wa_expr_w])

T_wa_expr_a == subs(T_a_expr, [key \in {"x"} |-> x_wa])
q_wa_expr_a == Mul(subs(diff(T_a_expr, "x"), [key \in {"x"} |-> x_wa]), k)

\* T_expr with the interface itself given to the water domain
T_expr_le == Piecewise(<<T_w_expr, Le(x, x_wa)>>, <<T_a_expr, True>>)

T_expr == Piecewise(<<T_w_expr, Lt(x, x_wa)>>, <<T_a_expr, True>>)

(***************************************************************************)
(* The last cell of modelfun.ipynb: class Models and its serialization.    *)
(***************************************************************************)
\* the factor of centimetres per metre, not squared
cm2_p_m2_not_squared == 10 * 10
\* Models.cm2_p_m2 = 100**2
cm2_p_m2 == 100 * 100

\* expr = T_expr.evalf(n=100, subs=(model_inputs | {q_s: q_s * cm2_p_m2}),
\*                     strict=True)
\* the substitution is applied and the numbers are evaluated
evalf(e, d) == subs(e, d)
expr(model_inputs) ==
    evalf(T_expr,
          DictUnion(model_inputs,
                    [key \in {"q_s"} |-> Mul(q_s, Num(cm2_p_m2))]))

\* lambdify(args, expr, modules): a callable of args that evaluates expr
lambdify(args, e, modules) == [args |-> args, expr |-> e, modules |-> modules]

\* Models with for_ufloat's arguments taken in the reverse order
Models_for_ufloat_reversed(model_inputs) ==
    [basic |-> lambdify(params, expr(model_inputs), <<"np">>),
     for_ufloat |->
        lambdify([i \in 1..Len(params) |-> params[Len(params) + 1 - i]],
                 expr(model_inputs), <<"overrides", "np">>)]

\* Models.__init__: self.basic and self.for_ufloat
Models(model_inputs) ==
    [basic |-> lambdify(params, expr(model_inputs), <<"np">>),
     for_ufloat |->
        lambdify(params, expr(model_inputs), <<"overrides", "np">>)]

(***************************************************************************)
(* Calling a lambdified function.  The positional arguments are bound to   *)
(* the names of args in order; each function of the expression is taken    *)
(* from the first of the modules that provides it.  An argument is a plain *)
(* number or a number with an uncertainty (a ufloat); U is the set of      *)
(* argument names given as ufloats.                                        *)
(***************************************************************************)
\* the names each entry of modules provides: overrides holds umath.exp and
\* umath.sqrt under their names; numpy provides every function
Provides(module) ==
    IF module = "overrides" THEN {"exp", "sqrt"}
    ELSE {"exp", "sqrt", "select", "less"}

Resolve(fn, modules) ==
    modules[CHOOSE i \in 1..Len(modules) :
               /\ fn \in Provides(modules[i])
               /\ \A j \in 1..(i - 1) : fn \notin Provides(modules[j])]

\* whether e depends on a name in U, and the functions of e applied to
\* something that does
RECURSIVE Taint(_, _)
Taint(e, U) ==
    CASE e[1] \in {"num", "pi", "true"} -> [dep |-> FALSE, fns |-> {}]
      [] e[1] = "sym" -> [dep |-> e[2] \in U, fns |-> {}]
      [] e[1] \in {"sqrt", "exp"} ->
            LET a == Taint(e[2], U) IN
            [dep |-> a.dep,
             fns |-> a.fns \cup (IF a.dep THEN {e[1]} ELSE {})]
      [] e[1] = "piecewise" ->
            LET a == Taint(e[2][1], U)
                b == Taint(e[3][1], U)
                c == Taint(e[2][2], U)
            IN  [dep |-> a.dep \/ b.dep \/ c.dep, fns |-> a.fns \cup b.fns]
      [] OTHER ->
            LET a == Taint(e[2], U)
                b == Taint(e[3], U)
            IN  [dep |-> a.dep \/ b.dep, fns |-> a.fns \cup b.fns]
FnOn(e, U) == IF U = {} THEN {} ELSE Taint(e, U).fns

\* the positional arguments bound to the names of args, in order
Bind(args, values) ==
    [s \in Range(args) |-> values[CHOOSE i \in 1..Len(args) : args[i] = s]]

\* f(*values): numpy's exp and sqrt reject a ufloat; otherwise the value of
\* the expression, uncertain when it depends on a ufloat
Call(f, values, U) ==
    IF \E fn \in FnOn(f.expr, U) : Resolve(fn, f.modules) = "np"
    THEN [error |-> "TypeError"]
    ELSE [n |-> Eval(f.expr, Bind(f.args, values)),
          u |-> U # {} /\ Taint(f.expr, U).dep]

\* the values of the model function's arguments at valuation e
Args(e) == [i \in 1..Len(params) |-> e[params[i]]]

(***************************************************************************)
(* Files.  A path is its stem and the interpreter version its name         *)
(* carries ("none" when it carries none); a file's content is what was     *)
(* written: its kind, the interpreter that pickled it and the stage run    *)
(* that wrote it (run 0: it was in the workspace before).                  *)
(***************************************************************************)
\* tasks.json, inputs.stage: modelfun-3.11, modelfun-3.12
Versions == {"3.11", "3.12"}

\* fit.ipynb: Path("data/model.dillpickle")
FitPath == [stem |-> "model", key |-> "none"]
\* PARAMS.paths.model of the interpreter v
PARAMS_paths_model(v) == [stem |-> "modelfun", key |-> v]

Paths == {FitPath} \cup {PARAMS_paths_model(v) : v \in Versions}

Absent == [kind |-> "absent", version |-> "none", run |-> 0]
Truncated(v, n) == [kind |-> "truncated", version |-> v, run |-> n]
\* dill.dumps(models) under interpreter v in stage run n
dumps(v, n) == [kind |-> "pickle", version |-> v, run |-> n]
\* what the workspace may hold at data/model.dillpickle before anything runs
Found == {Absent, dumps("none", 0), Truncated("none", 0)}

\* Steps with the file written before the models are pickled
Steps_write_first ==
    <<"imports", "parameters", "ode", "dsolve", "water", "boundary", "air",
      "piecewise", "evalf", "lambdify_basic", "lambdify_for_ufloat",
      "write_bytes", "dumps">>

\* the steps of one run of modelfun.ipynb, in cell order
Steps ==
    <<"imports", "parameters", "ode", "dsolve", "water", "boundary", "air",
      "piecewise", "evalf", "lambdify_basic", "lambdify_for_ufloat",
      "dumps", "write_bytes">>

Index(s) == CHOOSE i \in DOMAIN Steps : Steps[i] = s

\* where control goes when step s returns
AfterStep(s) ==
    IF Index(s) = Len(Steps) THEN "done" ELSE Steps[Index(s) + 1]
\* where control goes when step s raises: nothing catches it
OnRaise(s) == "failed"

(***************************************************************************)
(* fit.ipynb.                                                              *)
(***************************************************************************)
DECADES == 6

FitCells == {"setup", "default", "sweep_h_a", "sweep_h_w"}

\* get_model(path): the file's bytes unpickled, or an exception
Loadable(content) == content.kind = "pickle"

\* the iteration of a sweep that raises: the first, one in the middle, the
\* last, or none (DECADES)
FailAt == {0, DECADES \div 2, DECADES - 1, DECADES}

\* SweepDecades of a loop that goes on after an iteration raised
SweepDecades_goes_on(fail) == {d \in 0..(DECADES - 1) : d # fail}

\* the decades a sweep fits when its iteration `fail` raises
\* (fail = DECADES: none does)
SweepDecades(fail) == {d \in 0..(DECADES - 1) : d < fail}

\* a float, written as a multiple of a unit: 100.0 is 100 times "1", and
\* 1e-1 and the imported MIN_NONZERO are units of their own
Float(n) == [unit |-> "1", times |-> n]
MIN_NONZERO == [unit |-> "MIN_NONZERO", times |-> 1]
Times(f, n) == [f EXCEPT !.times = @ * n]
RECURSIVE Pow10(_)
Pow10(d) == IF d = 0 THEN 1 ELSE 10 * Pow10(d - 1)

\* X, Y (in tenths) and Y_ERR (tenths, each over sqrt(10))
X == "PARAMS.geometry.rods[R]"
Y == <<1657, 1568, 1492, 1411, 1164>>
Y_ERR == [tenths |-> <<22, 22, 22, 22, 10>>, over_sqrt |-> 10]

\* subplots(nrows, ncols): the axes of a new figure, by row and column
subplots(nrows, ncols) ==
    [i \in 1..nrows |-> [j \in 1..ncols |-> [row |-> i, col |-> j]]]
\* flatten that goes through the first row again and again
flatten_first_row(axs) ==
    LET ncols == Len(axs[1]) IN
    [i \in 1..(Len(axs) * ncols) |-> axs[1][((i - 1) % ncols) + 1]]
\* axs.flatten(): the axes row by row
flatten(axs) ==
    LET ncols == Len(axs[1]) IN
    [i \in 1..(Len(axs) * ncols) |->
        axs[((i - 1) \div ncols) + 1][((i - 1) % ncols) + 1]]
range(n) == [i \in 1..n |-> i - 1]
\* zip(a, b, strict=True): the pairs up to the shorter length, then a
\* ValueError when the lengths differ
ZipStrict(a, b) ==
    LET n == IF Len(a) < Len(b) THEN Len(a) ELSE Len(b) IN
    [pairs |-> [i \in 1..n |-> <<a[i], b[i]>>], raises |-> Len(a) # Len(b)]

\* FIT, the imported default, and Fit(initial_values=...), a new object at
\* each evaluation (alloc tells the evaluations apart)
FIT == [new |-> FALSE, alloc |-> <<>>, initial_values |-> <<>>]
Fit(initial_values, alloc) ==
    [new |-> TRUE, alloc |-> alloc, initial_values |-> initial_values]

\* check(fit, ax, run) in namespace ns: the call of fit_and_plot it makes
check(ns, fit, ax, run) ==
    [model |-> ns.model, params |-> fit, x |-> X, y |-> Y, y_errors |-> Y_ERR,
     ax |-> ax, run |-> run]

\* check_initial_values with h given to both coefficients
check_initial_values_varies_both(def, ns, hval, ax, alloc) ==
    check(ns,
          Fit([T_s |-> Float(100), q_s |-> Float(10), k |-> Float(400),
               h_a |-> hval, h_w |-> hval], alloc),
          ax, <<(IF def = "h_a" THEN "h_a0 = " ELSE "h_w = "), hval>>)

\* the two definitions of check_initial_values(h, ax), h being hval here: that of the third
\* cell ("h_a") and that of the fourth ("h_w")
check_initial_values(def, ns, hval, ax, alloc) ==
    IF def = "h_a"
    THEN check(ns,
               Fit([T_s |-> Float(100), q_s |-> Float(10), k |-> Float(400),
                    h_a |-> hval, h_w |-> MIN_NONZERO], alloc),
               ax, <<"h_a0 = ", hval>>)
    ELSE check(ns,
               Fit([T_s |-> Float(100), q_s |-> Float(10), k |-> Float(400),
                    h_a |-> MIN_NONZERO, h_w |-> hval], alloc),
               ax, <<"h_w = ", hval>>)

\* the h a sweep cell passes for a decade
SweepH(which, decade) ==
    IF which = "h_a" THEN Times(MIN_NONZERO, Pow10(decade))
    ELSE Times([unit |-> "1e-1", times |-> 1], Pow10(decade))

\* a def that leaves a name alone when the namespace already binds it
Def_keeps_first(ns, which) ==
    IF ns.check_initial_values = "none"
    THEN [ns EXCEPT !.check_initial_values = which] ELSE ns
\* def check_initial_values in a sweep cell: the name is bound, or bound
\* anew, to the cell's function
Def(ns, which) == [ns EXCEPT !.check_initial_values = which]
\* the statements of a sweep cell, in order
SweepCell == <<"def", "subplots", "for">>
Pos(stmt) == CHOOSE i \in DOMAIN SweepCell : SweepCell[i] = stmt

NoOutput == [status |-> "none", decades |-> {}, model |-> Absent, by |-> "none"]
FreshKernel ==
    [imports |-> FALSE, model |-> Absent, check |-> FALSE,
     check_initial_values |-> "none"]

\* the valuations at which expressions are evaluated
Positions == {"x", "x_s", "x_wa"}
Levels == {1, 2}
Envs ==
    {pos @@ oth :
        pos \in [Positions -> 1..MaxVal],
        oth \in [(Range(params) \cup Range(inputs)) \ Positions -> Levels]}
DefaultEnv == [s \in Range(params) \cup Range(inputs) |-> 1]

\* PARAMS.fit.model_inputs: a value for each model input, and possibly for
\* the keys in extra
ExtraKeys == {"q_s"}
ModelInputs(e, extra) ==
    [key \in Range(inputs) \cup extra |-> Num(e[key])]

(***************************************************************************)
(* .vscode/tasks.json: the dvc tasks and the release tasks.  A task is its *)
(* dependsOn list and the commands of its command line, which `&&` chains; *)
(* the other tasks of the file neither depend on these nor are depended on *)
(* by them.                                                                *)
(***************************************************************************)
MaxYears == 1           \* years after FirstYear
MaxBumps == 1           \* releases after the first
MaxFragments == 1       \* change fragments waiting to be compiled

\* the year of the first release under CalVer, 2024.01.01
FirstYear == 2024

SyncParams == "dvc: sync params"
BumpVersion == "task: Bump version"
ReleaseVersion == "task: Release version"
UpdateChangelog == "task: Update changelog"
UpdateChangelogLatest == "task: Update changelog with the latest commit's message"
DvcTasks ==
    {"dvc: repro", "dvc: repro force downstream", "dvc: repro force",
     "dvc: dag"}
TaskLabels ==
    DvcTasks \cup
       {SyncParams, BumpVersion, ReleaseVersion, UpdateChangelog,
        UpdateChangelogLatest}

\* Tasks with `dvc: dag` depending on nothing
Tasks_dag_without_sync ==
    [t \in TaskLabels |->
        CASE t = "dvc: repro" ->
                [dependsOn |-> <<SyncParams>>, chain |-> <<"dvc repro">>]
          [] t = "dvc: repro force downstream" ->
                [dependsOn |-> <<SyncParams>>,
                 chain |-> <<"dvc repro --force-downstream">>]
          [] t = "dvc: repro force" ->
                [dependsOn |-> <<SyncParams>>,
                 chain |-> <<"dvc repro --force">>]
          [] t = "dvc: dag" ->
                [dependsOn |-> <<>>,
                 chain |-> <<"dvc dag", "activate markdownlint",
                             "markdownlint --fix">>]
          [] t = SyncParams ->
                [dependsOn |-> <<>>, chain |-> <<"sync_params">>]
          [] t = BumpVersion ->
                [dependsOn |-> <<>>,
                 chain |-> <<"dev.ps1", "copier update", "towncrier build",
                             "git add", "git commit">>]
          [] t = ReleaseVersion ->
                [dependsOn |-> <<>>,
                 chain |-> <<"dev.ps1", "Invoke-Uv", "read project_version",
                             "git tag", "git push">>]
          [] t = UpdateChangelog ->
                [dependsOn |-> <<>>, chain |-> <<"add-change">>]
          [] t = UpdateChangelogLatest ->
                [dependsOn |-> <<>>, chain |-> <<"towncrier create">>]]

Tasks ==
    [t \in TaskLabels |->
        CASE t = "dvc: repro" ->
                [dependsOn |-> <<SyncParams>>, chain |-> <<"dvc repro">>]
          [] t = "dvc: repro force downstream" ->
                [dependsOn |-> <<SyncParams>>,
                 chain |-> <<"dvc repro --force-downstream">>]
          [] t = "dvc: repro force" ->
                [dependsOn |-> <<SyncParams>>,
                 chain |-> <<"dvc repro --force">>]
          [] t = "dvc: dag" ->
                [dependsOn |-> <<SyncParams>>,
                 chain |-> <<"dvc dag", "activate markdownlint",
                             "markdownlint --fix">>]
          [] t = SyncParams ->
                [dependsOn |-> <<>>, chain |-> <<"sync_params">>]
          [] t = BumpVersion ->
                [dependsOn |-> <<>>,
                 chain |-> <<"dev.ps1", "copier update", "towncrier build",
                             "git add", "git commit">>]
          [] t = ReleaseVersion ->
                [dependsOn |-> <<>>,
                 chain |-> <<"dev.ps1", "Invoke-Uv", "read project_version",
                             "git tag", "git push">>]
          [] t = UpdateChangelog ->
                [dependsOn |-> <<>>, chain |-> <<"add-change">>]
          [] t = UpdateChangelogLatest ->
                [dependsOn |-> <<>>, chain |-> <<"towncrier create">>]]

\* the tasks run for a requested task: its dependencies, each with its own,
\* in order, then the task; "cycle" where a task is reached from itself
RECURSIVE PlanFrom(_, _)
RECURSIVE PlanOfAll(_, _)
PlanOfAll(labels, seen) ==
    IF labels = <<>> THEN <<>>
    ELSE PlanFrom(Head(labels), seen) \o PlanOfAll(Tail(labels), seen)
PlanFrom(label, seen) ==
    IF label \in seen THEN <<"cycle">>
    ELSE PlanOfAll(Tasks[label].dependsOn, seen \cup {label}) \o <<label>>
Plan(label) == PlanFrom(label, {})

\* `a && b`: where the chain goes after command i of n, by whether the
\* command succeeded; n + 1 is the end of the chain
AfterCommand_semicolon(i, n, ok) == i + 1
AfterCommand(i, n, ok) == IF ok THEN i + 1 ELSE n + 1

\* ${input:version}, a free-form string, here a year and a counter: the
\* version already released, the next of its year, the first of the next
Version(y, n) == [kind |-> "calver", year |-> y, n |-> n]
NoVersion == [kind |-> "none", year |-> 0, n |-> 0]
VersionInputs ==
    {Version(FirstYear, 1), Version(FirstYear, 2), Version(FirstYear + 1, 1)}
\* the inputs a task's command line asks for
Inputs(label) ==
    IF label = BumpVersion THEN VersionInputs ELSE {NoVersion}

\* CHANGELOG.md, by the number of its release sections and the version of
\* the topmost; towncrier build puts a new section on top
NoChangelog == [sections |-> 0, top |-> NoVersion]
Compiled(changelog, version) ==
    [sections |-> changelog.sections + 1, top |-> version]

\* the repository after the first release under CalVer
Repo0 ==
    [answers |-> Version(FirstYear, 1),
     changelog |-> Compiled(NoChangelog, Version(FirstYear, 1)),
     fragments |-> 0,
     commits |-> <<[message |-> Version(FirstYear, 1), year |-> FirstYear]>>,
     tags |-> {[name |-> Version(FirstYear, 1),
                message |-> Version(FirstYear, 1), signed |-> TRUE]}]

\* git tag with the task's input as the message
git_tag_message_from_input(repo, name, input) ==
    [repo EXCEPT !.tags = @ \cup
        {[name |-> name, message |-> input, signed |-> TRUE]}]
\* git tag --sign -m $Version $Version
git_tag(repo, name, input) ==
    [repo EXCEPT !.tags = @ \cup
        {[name |-> name, message |-> name, signed |-> TRUE]}]

\* add-change that writes the entry into CHANGELOG.md
add_change_into_changelog(repo) ==
    [repo EXCEPT !.changelog = Compiled(@, NoVersion)]
\* python -m dev add-change: a change fragment is created
add_change(repo) == [repo EXCEPT !.fragments = @ + 1]

\* whether a command can succeed in this repository ($Version is shell)
CanSucceed(cmd, repo, shell) ==
    cmd = "git tag" =>
       /\ shell.kind # "none"
       /\ \A t \in repo.tags : t.name # shell

\* $Version after a command that succeeded
ShellAfter(cmd, repo, shell) ==
    IF cmd = "read project_version" THEN repo.answers ELSE shell

\* the repository after a command that succeeded, in year `now`
Effect(cmd, repo, input, shell, now) ==
    CASE cmd = "copier update" ->
            [repo EXCEPT !.answers = input]
      [] cmd = "towncrier build" ->
            [repo EXCEPT !.changelog = Compiled(@, input), !.fragments = 0]
      [] cmd = "git commit" ->
            [repo EXCEPT !.commits = Append(@, [message |-> input, year |-> now])]
      [] cmd = "git tag" -> git_tag(repo, shell, input)
      [] cmd = "add-change" -> add_change(repo)
      [] cmd = "towncrier create" ->
            [repo EXCEPT !.fragments = @ + 1]
      [] OTHER -> repo

VARIABLES
    env,            \* the valuation the expressions are evaluated at
    model_inputs,   \* PARAMS.fit.model_inputs
    version,        \* the interpreter of the stage being run
    runs,           \* stage runs started
    dpc,            \* modelfun.ipynb: the step to run next, or idle/done/failed
    trace,          \* the steps of this run that have returned, in order
    raised,         \* the step whose exception ended this run, or "none"
    files,          \* path -> content
    files0,         \* files as they were when this run started
    written,        \* every write so far: <<path, content>>
    kernel,         \* fit.ipynb's kernel namespace
    out,            \* fit.ipynb: each cell's output of its last execution
    reads,          \* the paths fit.ipynb has read
    year,           \* the calendar year
    repo,           \* the repository: answers file, changelog, git
    repo0,          \* the repository when the running task was requested
    treq,           \* the task requested, or "none"
    tinput,         \* the input given to it
    tplan,          \* the tasks still to run, the running one first
    tstep,          \* the next command of the running task's chain
    tstatus,        \* idle, running, done or failed
    tshell,         \* $Version in the running task's shell
    tlog            \* the commands run for the request: <<task, cmd, ok>>

task_vars ==
    <<year, repo, repo0, treq, tinput, tplan, tstep, tstatus, tshell, tlog>>

vars ==
    <<env, model_inputs, version, runs, dpc, trace, raised, files, files0,
      written, kernel, out, reads, task_vars>>

derive_vars == <<version, runs, dpc, trace, raised, files, files0, written>>
fit_vars == <<kernel, out, reads>>
\* what the notebooks are given and leave alone
given == <<env, model_inputs, task_vars>>

InitCommon ==
    /\ version = "3.11"
    /\ runs = 0
    /\ dpc = "idle"
    /\ trace = <<>>
    /\ raised = "none"
    /\ written = {}
    /\ kernel = FreshKernel
    /\ out = [c \in FitCells |-> NoOutput]
    /\ reads = {}
    /\ year = FirstYear
    /\ repo = Repo0
    /\ repo0 = Repo0
    /\ treq = "none"
    /\ tinput = NoVersion
    /\ tplan = <<>>
    /\ tstep = 1
    /\ tstatus = "idle"
    /\ tshell = NoVersion
    /\ tlog = <<>>

\* the pipeline: what the workspace holds at data/model.dillpickle and what
\* model_inputs supplies are the inputs
Init ==
    /\ InitCommon
    /\ env = DefaultEnv
    /\ \E extra \in SUBSET ExtraKeys : model_inputs = ModelInputs(env, extra)
    /\ \E c \in Found :
          files = [p \in Paths |-> IF p = FitPath THEN c ELSE Absent]
    /\ files0 = files

(***************************************************************************)
(* modelfun.ipynb, run as a stage (dvc repro modelfun-<version>): the      *)
(* cells run top to bottom and the first exception ends the run.           *)
(***************************************************************************)
StartRun(v) ==
    /\ dpc \in {"idle", "done", "failed"}
    /\ kernel = FreshKernel
    /\ runs < MaxRuns
    /\ version' = v
    /\ runs' = runs + 1
    /\ dpc' = Steps[1]
    /\ trace' = <<>>
    /\ raised' = "none"
    /\ files0' = files
    /\ UNCHANGED <<files, written, fit_vars, given>>

\* a step that only computes: it returns, or it raises
Compute(s) ==
    /\ dpc = s
    /\ \/ /\ dpc' = AfterStep(s)
          /\ trace' = Append(trace, s)
          /\ UNCHANGED raised
       \/ /\ dpc' = OnRaise(s)
          /\ raised' = s
          /\ UNCHANGED trace
    /\ UNCHANGED <<version, runs, files, files0, written, fit_vars, given>>

Imports == Compute("imports")
Parameters == Compute("parameters")
Ode == Compute("ode")
Dsolve == Compute("dsolve")
Water == Compute("water")
Boundary == Compute("boundary")
Air == Compute("air")
PiecewiseCell == Compute("piecewise")
Evalf == Compute("evalf")
LambdifyBasic == Compute("lambdify_basic")
LambdifyForUfloat == Compute("lambdify_for_ufloat")
Dumps == Compute("dumps")

\* PARAMS.paths.model.write_bytes(data): the file is opened for writing
\* (created or truncated) and the bytes are written; open may raise, leaving
\* the file alone, and the write may raise, leaving it truncated
WriteTarget(v) == PARAMS_paths_model(v)
WriteBytes ==
    /\ dpc = "write_bytes"
    /\ LET path == WriteTarget(version) IN
       \/ /\ files' = [files EXCEPT ![path] = dumps(version, runs)]
          /\ written' = written \cup {<<path, dumps(version, runs)>>}
          /\ dpc' = AfterStep("write_bytes")
          /\ trace' = Append(trace, "write_bytes")
          /\ UNCHANGED raised
       \/ /\ UNCHANGED <<files, written, trace>>
          /\ dpc' = OnRaise("write_bytes")
          /\ raised' = "write_bytes"
       \/ /\ files' = [files EXCEPT ![path] = Truncated(version, runs)]
          /\ written' = written \cup {<<path, Truncated(version, runs)>>}
          /\ dpc' = OnRaise("write_bytes")
          /\ raised' = "write_bytes"
          /\ UNCHANGED trace
    /\ UNCHANGED <<version, runs, files0, fit_vars, given>>

Derive ==
    \/ Imports \/ Parameters \/ Ode \/ Dsolve \/ Water \/ Boundary \/ Air
    \/ PiecewiseCell \/ Evalf \/ LambdifyBasic \/ LambdifyForUfloat
    \/ Dumps \/ WriteBytes

(***************************************************************************)
(* fit.ipynb, run cell by cell in a kernel.                                *)
(***************************************************************************)
Idle == dpc \in {"idle", "done", "failed"}

\* cell 1: imports and constants, then get_model, then def check
get_model(path) == files[path]
FitSetup ==
    /\ Idle
    /\ reads' = reads \cup {FitPath}
    /\ LET content == get_model(FitPath) IN
       IF Loadable(content)
       THEN /\ kernel' = [kernel EXCEPT !.imports = TRUE,
                                        !.model = content, !.check = TRUE]
            /\ out' = [out EXCEPT !["setup"] =
                          [status |-> "ok", decades |-> {}, model |-> content,
                           by |-> "none"]]
       ELSE /\ kernel' = [kernel EXCEPT !.imports = TRUE]
            /\ out' = [out EXCEPT !["setup"] =
                          [status |-> "raised", decades |-> {},
                           model |-> Absent, by |-> "none"]]
    /\ UNCHANGED <<derive_vars, given>>

NameError ==
    [status |-> "NameError", decades |-> {}, model |-> Absent, by |-> "none"]

\* cell 2: check(fit=FIT, ax=ax, run="default")
FitDefault ==
    /\ Idle
    /\ IF ~kernel.imports \/ ~kernel.check
       THEN out' = [out EXCEPT !["default"] = NameError]
       ELSE \E ok \in BOOLEAN :
               out' = [out EXCEPT !["default"] =
                          [status |-> IF ok THEN "ok" ELSE "raised",
                           decades |-> IF ok THEN {0} ELSE {},
                           model |-> kernel.model, by |-> "none"]]
    /\ UNCHANGED <<kernel, reads, derive_vars, given>>

\* cells 3 and 4: def check_initial_values, subplots, then the loop over
\* the decades; the loop calls the check_initial_values of the namespace
\* (recorded as `by`), and a statement that raises ends the cell
SweepPairs == ZipStrict(range(DECADES), flatten(subplots(2, 3)))
FitSweep(which) ==
    /\ Idle
    /\ LET cell == IF which = "h_a" THEN "sweep_h_a" ELSE "sweep_h_w"
           defined == Def(kernel, which)
           ns == IF Pos("def") < Pos("for") THEN defined ELSE kernel
       IN
       IF ~kernel.imports \/ ~kernel.check \/ ns.check_initial_values = "none"
       THEN /\ out' = [out EXCEPT ![cell] = NameError]
            /\ kernel' = ns
       ELSE \E fail \in FailAt :
               LET ended == fail = DECADES /\ ~SweepPairs.raises IN
               /\ out' = [out EXCEPT ![cell] =
                          [status |-> IF ended THEN "ok" ELSE "raised",
                           decades |-> SweepDecades(fail),
                           model |-> kernel.model,
                           by |-> ns.check_initial_values]]
               /\ kernel' = IF Pos("def") < Pos("for") \/ ended
                            THEN defined ELSE kernel
    /\ UNCHANGED <<reads, derive_vars, given>>

\* the calls of fit_and_plot a cell made at its last execution: the default
\* cell's one call, and a sweep cell's call for each decade it fitted, on
\* the axis zip paired with the decade; each cell's axes are those of the
\* figure the cell made
Calls(cell) ==
    LET o == out[cell] IN
    IF cell = "setup" THEN {}
    ELSE IF cell = "default"
    THEN {check(o, FIT, [fig |-> cell, at |-> subplots(1, 1)[1][1]],
                <<"default">>) : d \in o.decades}
    ELSE LET z == SweepPairs
             which == IF cell = "sweep_h_a" THEN "h_a" ELSE "h_w"
         IN  {check_initial_values(o.by, o, SweepH(which, z.pairs[i][1]),
                                   [fig |-> cell, at |-> z.pairs[i][2]],
                                   <<cell, i>>) :
                 i \in {j \in DOMAIN z.pairs : z.pairs[j][1] \in o.decades}}

\* the kernel is restarted: its namespace and the outputs are cleared
RestartKernel ==
    /\ kernel # FreshKernel
    /\ kernel' = FreshKernel
    /\ out' = [c \in FitCells |-> NoOutput]
    /\ UNCHANGED <<reads, derive_vars, given>>

Next ==
    \/ \E v \in Versions : StartRun(v)
    \/ Derive
    \/ FitSetup
    \/ FitDefault
    \/ \E which \in {"h_a", "h_w"} : FitSweep(which)
    \/ RestartKernel

Spec == Init /\ [][Next]_vars

(***************************************************************************)
(* The derivation alone, at every valuation: one run of one stage.         *)
(***************************************************************************)
InitModel ==
    /\ InitCommon
    /\ env \in Envs
    /\ model_inputs = ModelInputs(env, {})
    /\ files = [p \in Paths |-> Absent]
    /\ files0 = files

NextModel ==
    \/ (runs = 0 /\ StartRun("3.11"))
    \/ Derive

SpecModel == InitModel /\ [][NextModel]_vars

(***************************************************************************)
(* The fit notebook alone, with whatever data/model.dillpickle holds.      *)
(***************************************************************************)
InitFit ==
    /\ InitCommon
    /\ env = DefaultEnv
    /\ model_inputs = ModelInputs(env, {})
    /\ \E c \in Found :
          files = [p \in Paths |-> IF p = FitPath THEN c ELSE Absent]
    /\ files0 = files

NextFit ==
    \/ FitSetup
    \/ FitDefault
    \/ \E which \in {"h_a", "h_w"} : FitSweep(which)
    \/ RestartKernel

SpecFit == InitFit /\ [][NextFit]_vars

(***************************************************************************)
(* The tasks, run one request at a time.  A request runs the tasks of its  *)
(* plan in order; a task runs the commands of its chain; a task whose      *)
(* chain ends on a failed command exits nonzero, and a nonzero exit ends   *)
(* the request.                                                            *)
(***************************************************************************)
pipeline_vars == <<env, model_inputs, derive_vars, fit_vars>>

StartTask(label) ==
    /\ tstatus \in {"idle", "done", "failed"}
    /\ label = BumpVersion =>
          /\ repo.changelog.sections < 1 + MaxBumps
          /\ Len(repo.commits) < 1 + MaxBumps
    /\ label \in {UpdateChangelog, UpdateChangelogLatest} =>
          repo.fragments < MaxFragments
    /\ treq' = label
    /\ \E input \in Inputs(label) : tinput' = input
    /\ tplan' = Plan(label)
    /\ tstep' = 1
    /\ tstatus' = "running"
    /\ tshell' = NoVersion
    /\ tlog' = <<>>
    /\ repo0' = repo
    /\ UNCHANGED <<year, repo, pipeline_vars>>

RunCommand ==
    /\ tstatus = "running"
    /\ LET task == Head(tplan)
           chain == Tasks[task].chain
           cmd == chain[tstep]
       IN
       \E ok \in {TRUE, FALSE} :
          /\ ok => CanSucceed(cmd, repo, tshell)
          /\ tlog' = Append(tlog, <<task, cmd, ok>>)
          /\ repo' = IF ok THEN Effect(cmd, repo, tinput, tshell, year)
                     ELSE repo
          /\ tshell' = IF ok THEN ShellAfter(cmd, repo, tshell) ELSE tshell
          /\ LET next == AfterCommand(tstep, Len(chain), ok) IN
             IF next <= Len(chain)
             THEN /\ tstep' = next
                  /\ UNCHANGED <<tplan, tstatus>>
             ELSE /\ tstep' = 1
                  /\ IF ~ok THEN tplan' = <<>> /\ tstatus' = "failed"
                     ELSE /\ tplan' = Tail(tplan)
                          /\ tstatus' =
                                IF Tail(tplan) = <<>> THEN "done" ELSE "running"
    /\ UNCHANGED <<year, repo0, treq, tinput, pipeline_vars>>

NewYear ==
    /\ tstatus # "running"
    /\ year < FirstYear + MaxYears
    /\ year' = year + 1
    /\ UNCHANGED <<repo, repo0, treq, tinput, tplan, tstep, tstatus, tshell,
                   tlog, pipeline_vars>>

InitTasks ==
    /\ InitCommon
    /\ env = DefaultEnv
    /\ model_inputs = ModelInputs(env, {})
    /\ files = [p \in Paths |-> Absent]
    /\ files0 = files

NextTasks ==
    \/ \E label \in TaskLabels : StartTask(label)
    \/ RunCommand
    \/ NewYear

SpecTasks == InitTasks /\ [][NextTasks]_vars

(***************************************************************************)
(* Helpers of the properties.                                              *)
(***************************************************************************)
\* step s has just returned in this run
JustRan(s) == raised = "none" /\ dpc = AfterStep(s)
\* the steps before step s, in order
Before(s) == SubSeq(Steps, 1, Index(s) - 1)
\* the cells of fit.ipynb that fit
Fitting == FitCells \ {"setup"}
\* a fit was performed by cell c
Fitted(c) == out[c].decades # {}
Sweeps == {"sweep_h_a", "sweep_h_w"}

(***************************************************************************)
(* C1.  Pipeline ordering: the model file is written only after every      *)
(* earlier step of the derivation has returned; in the fit notebook the    *)
(* model is loaded from the file before any fit runs; and once the         *)
(* derivation has written its model, every fit runs on a model that the    *)
(* derivation wrote to the file the fit loaded it from.                    *)
(***************************************************************************)
C1_PipelineOrdering ==
    /\ files # files0 => SubSeq(trace, 1, Len(Steps) - 1) = Before("write_bytes")
    /\ \A c \in Fitting :
          Fitted(c) =>
             /\ FitPath \in reads
             /\ kernel.check
             /\ Loadable(out[c].model)
             /\ written # {} => <<FitPath, out[c].model>> \in written

(***************************************************************************)
(* C2.  A step of the derivation that raises ends the run: control is at   *)
(* "failed", the steps that returned are exactly the steps before it, each *)
(* once and in order, and, unless the step is write_bytes itself, every    *)
(* file is as it was when the run started.                                 *)
(***************************************************************************)
C2_FailureLeavesFile ==
    raised # "none" =>
       /\ dpc = "failed"
       /\ trace = Before(raised)
       /\ raised # "write_bytes" => files = files0

\* dill.dumps raises in a run whose model file held an earlier run's model
C2_Witness ==
    /\ raised = "dumps"
    /\ files0[WriteTarget(version)].kind = "pickle"

(***************************************************************************)
(* C3.  When data/model.dillpickle is missing or cannot be loaded, the     *)
(* setup cell raises, the kernel holds no model and no cell performs a     *)
(* fit; and a sweep that raises in one iteration has fitted exactly the    *)
(* decades before it.                                                      *)
(***************************************************************************)
C3_FitFailure ==
    /\ ~Loadable(files[FitPath]) =>
          /\ out["setup"].status \in {"none", "raised"}
          /\ ~kernel.check
          /\ kernel.model = Absent
          /\ \A c \in Fitting : ~Fitted(c) /\ out[c].status \in {"none", "NameError"}
    /\ \A c \in Sweeps :
          out[c].status = "raised" =>
             \E fail \in 0..(DECADES - 1) : out[c].decades = 0..(fail - 1)

\* the file is missing, the setup cell has raised and a sweep cell was run
C3_Witness ==
    /\ files[FitPath] = Absent
    /\ out["setup"].status = "raised"
    /\ out["sweep_h_a"].status = "NameError"

(***************************************************************************)
(* C4.  Piecewise selection: at every x the water-domain form is selected  *)
(* exactly when x < x_wa and the air-domain form otherwise, also at        *)
(* x = x_wa; one of the two is always selected.                            *)
(***************************************************************************)
C4_PiecewiseSelection ==
    JustRan("piecewise") =>
       /\ Branch(T_expr, env) = IF env["x"] < env["x_wa"] THEN 1 ELSE 2
       /\ T_expr[2][1] = T_w_expr
       /\ T_expr[3][1] = T_a_expr

\* the distribution is evaluated at the interface itself
C4_Witness == JustRan("piecewise") /\ env["x"] = env["x_wa"]

(***************************************************************************)
(* C5.  Matching conditions: at x = x_wa the air-domain solution has the   *)
(* temperature and the heat flux of the water-domain solution, at every    *)
(* valuation of the parameters.                                            *)
(***************************************************************************)
C5_InterfaceMatching ==
    JustRan("air") =>
       /\ Eval(T_wa_expr_a, env) = Eval(T_wa_expr_w, env)
       /\ Eval(q_wa_expr_a, env) = Eval(q_wa_expr_w, env)

\* the two domains differ in every parameter and the interface is away
\* from the source
C5_Witness ==
    /\ JustRan("air")
    /\ env["h_a"] # env["h_w"]
    /\ env["T_infa"] # env["T_infw"]
    /\ env["x_wa"] # env["x_s"]

(***************************************************************************)
(* C6.  Source boundary conditions: the water-domain solution has          *)
(* T_w(x_s) = T_s and k * dT_w/dx = q_s at x_s; and the general solution   *)
(* has T(x_0) = T_0 and dT/dx = q_0 / k at x_0.                            *)
(***************************************************************************)
\* a valuation of the general solution's own symbols, from env
GeneralEnv(e) ==
    [key \in {"x", "k", "r", "h", "q_0", "T_0", "T_inf", "x_0"} |->
        CASE key = "h" -> e["h_a"]
          [] key = "q_0" -> e["T_infa"] + e["q_s"]
          [] key = "T_0" -> e["T_infw"] + 2 * e["T_s"]
          [] key = "T_inf" -> e["T_s"]
          [] key = "x_0" -> e["x_wa"]
          [] OTHER -> e[key]]

C6_SourceConditions ==
    JustRan("water") =>
       /\ Eval(subs(T_w_expr, [key \in {"x"} |-> x_s]), env) = env["T_s"]
       /\ Eval(Mul(k, subs(diff(T_w_expr, "x"), [key \in {"x"} |-> x_s])), env)
             = env["q_s"]
       /\ LET g == GeneralEnv(env) IN
          /\ Eval(subs(T_int_expr, [key \in {"x"} |-> x_0]), g) = g["T_0"]
          /\ Eval(subs(diff(T_int_expr, "x"), [key \in {"x"} |-> x_0]), g)
                = Eval(Div(q_0, k), g)

\* a conductivity other than 1 and a source away from the interface
C6_Witness ==
    /\ JustRan("water")
    /\ env["k"] # 1
    /\ env["x_s"] # env["x_wa"]
    /\ env["T_s"] # env["T_infw"]

(***************************************************************************)
(* C7.  The serialized model file is keyed by interpreter version in its   *)
(* name: every file the derivation writes and every file the fit notebook  *)
(* reads carries a version in its name, and the file of one version never  *)
(* holds the model of another.                                             *)
(***************************************************************************)
C7_VersionKeyedFile ==
    /\ \A w \in written : w[1].key \in Versions /\ w[1].key = w[2].version
    /\ \A p \in reads : p.key \in Versions
    /\ \A v \in Versions :
          files[PARAMS_paths_model(v)].version \in {"none", v}

(***************************************************************************)
(* C8.  Single-file I/O: the derivation writes only its model file, once   *)
(* in a run that completes and as the last step; once it is written, the   *)
(* fit notebook reads only that file; and the fit notebook changes no file.*)
(***************************************************************************)
C8_SingleFileIO ==
    /\ \A w \in written : w[1] = PARAMS_paths_model(w[2].version)
    /\ dpc = "done" =>
          /\ trace[Len(trace)] = "write_bytes"
          /\ Cardinality({w \in written : w[2].run = runs}) = 1
    /\ written # {} => \A p \in reads : \E w \in written : w[1] = p
    /\ \A p \in Paths : files[p] # files0[p] => \E w \in written : w[1] = p

(***************************************************************************)
(* C9.  Elimination of the intermediate variables: neither branch of       *)
(* T_expr contains h, q_0, T_0, T_inf, x_0, q_wa or T_wa; its free symbols *)
(* are model parameters, model inputs or x.                                *)
(***************************************************************************)
FreeOfT_expr == free_symbols(T_expr)
FreeOfBranches == free_symbols(T_expr[2][1]) \cup free_symbols(T_expr[3][1])

C9_IntermediatesEliminated ==
    JustRan("piecewise") =>
       /\ FreeOfBranches \cap Range(intermediate_vars) = {}
       /\ FreeOfT_expr \subseteq Range(params) \cup Range(inputs) \cup {"x"}

\* both branches are the substituted solutions, each with symbols of its own
C9_Witness ==
    /\ JustRan("piecewise")
    /\ "h_w" \in free_symbols(T_expr[2][1])
    /\ "h_a" \in free_symbols(T_expr[3][1])

(***************************************************************************)
(* C10.  Closed model function: every free symbol of the expression handed *)
(* to lambdify is one of the lambdify arguments, in both callables; and    *)
(* the entry of q_s in the substitution is q_s * cm2_p_m2 also when        *)
(* model_inputs supplies q_s.                                              *)
(***************************************************************************)
C10_ClosedModelFunction ==
    dpc \in {"lambdify_basic", "lambdify_for_ufloat"} =>
       LET m == Models(model_inputs) IN
       /\ free_symbols(m.basic.expr) \subseteq Range(m.basic.args)
       /\ free_symbols(m.for_ufloat.expr) \subseteq Range(m.for_ufloat.args)
       /\ m.basic.args = params /\ m.for_ufloat.args = params
       /\ "q_s" \in free_symbols(m.basic.expr)
       /\ m.basic.expr =
             subs(subs(T_expr, [key \in {"q_s"} |-> Mul(q_s, Num(cm2_p_m2))]),
                  [key \in DOMAIN model_inputs \ {"q_s"} |-> model_inputs[key]])

\* model_inputs supplies q_s too
C10_Witness == dpc = "lambdify_basic" /\ "q_s" \in DOMAIN model_inputs

(***************************************************************************)
(* C11.  Unit conversion of the source flux: the value of either callable  *)
(* at its arguments is the value of the temperature distribution with q_s  *)
(* multiplied by 10000 and every other argument as given, in the           *)
(* distribution as a whole and in each of its two branches.                *)
(***************************************************************************)
C11_SourceFluxConversion ==
    JustRan("lambdify_for_ufloat") =>
        LET m == Models(model_inputs)
            scaled == [env EXCEPT !["q_s"] = 10000 * env["q_s"]]
            whole == Eval(T_expr, scaled)
            water == Eval(T_expr[2][1], scaled)
            air == Eval(T_expr[3][1], scaled)
        IN  \A f \in {m.basic, m.for_ufloat} :
               LET bound == Bind(f.args, Args(env)) IN
               /\ Call(f, Args(env), {}).n = whole
               /\ Eval(f.expr[2][1], bound) = water
               /\ Eval(f.expr[3][1], bound) = air

C11_Witness ==
    /\ JustRan("lambdify_for_ufloat")
    /\ env["q_s"] = 2
    /\ env["x"] > env["x_wa"]

GridAxes == {[row |-> i, col |-> j] : i \in 1..2, j \in 1..3}
StrictZipRaises ==
    \A n \in 0..(DECADES + 1), rows \in 1..3, cols \in 1..3 :
       LET z == ZipStrict(range(n), flatten(subplots(rows, cols))) IN
          /\ z.raises <=> n # rows * cols
          /\ ~z.raises => Len(z.pairs) = n
AllCalls == UNION {Calls(c) : c \in Fitting}
C18_SweepCoverage ==
    /\ StrictZipRaises
    /\ \A c \in Sweeps :
          out[c].status = "ok" =>
             LET calls == Calls(c) IN
             /\ out[c].decades = 0..(DECADES - 1)
             /\ Cardinality(calls) = DECADES
             /\ {f.ax.at : f \in calls} = GridAxes
             /\ \A f \in calls : f.ax.fig = c
             /\ \A d \in out[c].decades :
                   \E f \in calls :
                      /\ f.run[2].times = Pow10(d)
                      /\ f.ax.at = flatten(subplots(2, 3))[d + 1]
    /\ (\A c \in Fitting : out[c].status = "ok") =>
          LET all == AllCalls IN
          /\ Cardinality(all) = 13
          /\ Cardinality({f.run : f \in all}) = 13

C18_Witness == \A c \in Fitting : out[c].status = "ok"

(***************************************************************************)
(* C19.  Only one initial value varies per sweep: in the fits of the first *)
(* sweep cell h_a is MIN_NONZERO * 10**decade and T_s = 100, q_s = 10,     *)
(* k = 400, h_w = MIN_NONZERO; in those of the second h_w is               *)
(* 0.1 * 10**decade and T_s = 100, q_s = 10, k = 400, h_a = MIN_NONZERO;   *)
(* every fit has a Fit object of its own, and the loaded model, X, Y and   *)
(* Y_ERR.                                                                  *)
(***************************************************************************)
C19_OneInitialValueVaries ==
    \A c \in Sweeps :
       LET fixed == IF c = "sweep_h_a" THEN "h_w" ELSE "h_a"
           varied == IF c = "sweep_h_a" THEN "h_a" ELSE "h_w"
           first == IF c = "sweep_h_a" THEN MIN_NONZERO
                    ELSE [unit |-> "1e-1", times |-> 1]
           calls == Calls(c)
       IN
       out[c].decades # {} =>
       /\ \A f \in calls :
             /\ f.params.new
             /\ f.params.initial_values["T_s"] = Float(100)
             /\ f.params.initial_values["q_s"] = Float(10)
             /\ f.params.initial_values["k"] = Float(400)
             /\ f.params.initial_values[fixed] = MIN_NONZERO
             /\ f.model = kernel.model
             /\ f.x = X /\ f.y = Y /\ f.y_errors = Y_ERR
       /\ {f.params.initial_values[varied] : f \in calls}
             = {Times(first, Pow10(d)) : d \in out[c].decades}
       /\ Cardinality({f.params.alloc : f \in calls}) = Cardinality(calls)
       /\ Cardinality(calls) = Cardinality(out[c].decades)

C19_Witness ==
    /\ out["sweep_h_w"].status = "ok"
    /\ out["sweep_h_a"].status = "raised"
    /\ Cardinality(out["sweep_h_a"].decades) = 3

(***************************************************************************)
(* C20.  Independence from the order of execution: whenever a sweep cell   *)
(* has fitted, in whatever order and however often the cells were run, the *)
(* definition of check_initial_values its loop called is the cell's own;   *)
(* the first sweep cell's fits vary h_a and are labelled "h_a0 = ", the    *)
(* second's vary h_w and are labelled "h_w = ".                            *)
(***************************************************************************)
C20_CellOrderIndependence ==
    \A c \in Sweeps :
       LET own == IF c = "sweep_h_a" THEN "h_a" ELSE "h_w"
           other == IF c = "sweep_h_a" THEN "h_w" ELSE "h_a"
       IN
       out[c].status \in {"ok", "raised"} =>
          /\ out[c].by = own
          /\ \A f \in Calls(c) :
                /\ f.run[1] = (IF c = "sweep_h_a" THEN "h_a0 = " ELSE "h_w = ")
                /\ f.params.initial_values[own] = f.run[2]
                /\ f.params.initial_values[other] = MIN_NONZERO

C20_Witness ==
    /\ out["sweep_h_a"].status = "ok"
    /\ out["sweep_h_w"].status = "ok"
    /\ kernel.check_initial_values = "h_a"



(***************************************************************************)
(* Helpers of the properties of the tasks.                                 *)
(***************************************************************************)
\* the command about to run is cmd of task
Running(task, cmd) ==
    /\ tstatus = "running"
    /\ Head(tplan) = task
    /\ Tasks[task].chain[tstep] = cmd
\* command cmd of the requested run was logged at i with result ok
Logged(i, task, cmd, ok) == tlog[i] = <<task, cmd, ok>>
\* cmd succeeded somewhere before position i of the log
OkBefore(i, task, cmd) == \E j \in 1..(i - 1) : Logged(j, task, cmd, TRUE)

(***************************************************************************)
(* C12.  CalVer numbering: the version of every release commit has the     *)
(* year of the release as its first number and, as its second, one more    *)
(* than the number of earlier releases of that year.                       *)
(***************************************************************************)
C12_CalVer ==
    \A i \in DOMAIN repo.commits :
       LET c == repo.commits[i] IN
          /\ c.message.kind = "calver"
          /\ c.message.year = c.year
          /\ c.message.n =
                1 + Cardinality({j \in 1..(i - 1) : repo.commits[j].year = c.year})

DependencyChain ==
    /\ Tasks[SyncParams].dependsOn = <<>>
    /\ \A t \in DvcTasks : Plan(t) = <<SyncParams, t>>
    /\ \A t \in TaskLabels :
          /\ "cycle" \notin Range(Plan(t))
          /\ Plan(t)[Len(Plan(t))] = t
C14_DvcOrdering ==
    /\ DependencyChain
    /\ \A i \in DOMAIN tlog :
          tlog[i][1] \in DvcTasks =>
             /\ tlog[i][1] = treq
             /\ OkBefore(i, SyncParams, "sync_params")
    /\ (treq \in DvcTasks /\ tlog # <<>>
          /\ Logged(Len(tlog), SyncParams, "sync_params", TRUE)) =>
             /\ tstatus = "running"
             /\ tplan = <<treq>>

C14_Witness ==
    /\ treq = "dvc: dag"
    /\ tstatus = "done"
    /\ Len(tlog) = 4

(***************************************************************************)
(* C15.  `Bump version` is all or nothing: its commands run in the order   *)
(* dev.ps1, copier update, towncrier build, git add, git commit, each only *)
(* after every earlier one succeeded; a failure ends the task; a commit is *)
(* created exactly when all five succeeded; and what copier update and     *)
(* towncrier build changed stays changed when a later command fails.       *)
(***************************************************************************)
C15_BumpAllOrNothing ==
    treq = BumpVersion =>
       LET chain == Tasks[BumpVersion].chain IN
          /\ chain = <<"dev.ps1", "copier update", "towncrier build",
                       "git add", "git commit">>
          /\ Len(tlog) <= Len(chain)
          /\ \A i \in DOMAIN tlog :
                /\ tlog[i][1] = BumpVersion
                /\ tlog[i][2] = chain[i]
                /\ i < Len(tlog) => tlog[i][3]
          /\ (tlog # <<>> /\ ~tlog[Len(tlog)][3]) =>
                tstatus = "failed" /\ tplan = <<>>
          /\ IF Len(tlog) = Len(chain) /\ tlog[Len(chain)][3]
             THEN /\ Len(repo.commits) = Len(repo0.commits) + 1
                  /\ repo.commits[Len(repo.commits)].message = tinput
             ELSE repo.commits = repo0.commits
          /\ (Len(tlog) >= 2 /\ tlog[2][3]) => repo.answers = tinput
          /\ (Len(tlog) >= 3 /\ tlog[3][3]) =>
                repo.changelog = Compiled(repo0.changelog, tinput)

C15_Witness ==
    /\ treq = BumpVersion
    /\ tstatus = "failed"
    /\ Len(tlog) = 4
    /\ repo.changelog # repo0.changelog
    /\ repo.commits = repo0.commits

(***************************************************************************)
(* C16.  `Release version` ordering: git tag succeeds only after Invoke-Uv *)
(* succeeded and project_version was read; the tag it creates is signed    *)
(* and has the project_version of .copier-answers.yml as its name and as   *)
(* its message; git push is run only after git tag succeeded, so never     *)
(* when reading the version or tagging failed.                             *)
(***************************************************************************)
C16_ReleaseOrdering ==
    treq = ReleaseVersion =>
       /\ \A i \in DOMAIN tlog :
             /\ Logged(i, ReleaseVersion, "git tag", TRUE) =>
                   /\ OkBefore(i, ReleaseVersion, "Invoke-Uv")
                   /\ OkBefore(i, ReleaseVersion, "read project_version")
                   /\ repo.tags \ repo0.tags =
                         {[name |-> repo0.answers, message |-> repo0.answers,
                           signed |-> TRUE]}
             /\ tlog[i][2] = "git push" =>
                   OkBefore(i, ReleaseVersion, "git tag")
       /\ (\E i \in DOMAIN tlog :
              /\ tlog[i][2] \in {"read project_version", "git tag"}
              /\ ~tlog[i][3]) =>
             \A i \in DOMAIN tlog : tlog[i][2] # "git push"
       /\ (\A i \in DOMAIN tlog : ~Logged(i, ReleaseVersion, "git tag", TRUE)) =>
             repo.tags = repo0.tags

C16_Witness ==
    /\ treq = ReleaseVersion
    /\ tstatus = "done"
    /\ repo.tags # repo0.tags
    /\ Logged(Len(tlog), ReleaseVersion, "git push", TRUE)


============================================================================
